---- MODULE Spec2Model ----
(***************************************************************************)
(* Model of the Task Dispatcher Organelle                                  *)
(* (src/stacks/organelles/task_dispatcher.py): the in-memory organelle     *)
(* registry, the FIFO task queue, the active-assignment table, the         *)
(* background dispatch loop and the heartbeat monitor.                     *)
(*                                                                         *)
(* The dispatcher runs on one asyncio event loop: a handler or a loop body *)
(* runs without interruption until it awaits something that really         *)
(* suspends (a sleep or network / Redis I/O).  Each action below is one    *)
(* such uninterrupted stretch of code.                                     *)
(***************************************************************************)
EXTENDS Integers, Sequences, FiniteSets, TLC

VARIABLES
    organelle_capacities, \* self.organelle_capacities: dict, in insertion order
    task_queue,           \* self.task_queue: asyncio.Queue (FIFO)
    active_tasks,         \* self.active_tasks: task_id -> TaskAssignment
    redis_tasks,          \* the durable store's task:<id> keys
    now,                  \* datetime.utcnow(), in clock ticks
    next_id,              \* the uuid4 of the next accepted task: never seen before
    pc,                   \* where background_dispatch_loop is suspended
    task_data,            \* the task_data dict the dispatch cycle holds
    best_organelle,       \* the OrganelleCapacity object dispatch_task selected
    best_live,            \* is that object still the one stored in the registry
    removed_stale,        \* ids logged "Removed stale organelle" and not stored since
    submit_response       \* the body of the last 200 answer of POST /task/submit

vars == <<organelle_capacities, task_queue, active_tasks, redis_tasks, now,
          next_id, pc, task_data, best_organelle, best_live, removed_stale,
          submit_response>>

----------------------------------------------------------------------------
(* Bounds of the model *)

\* number of tasks submitted in one behaviour
MaxTasks == 2
\* last clock tick
MaxTime == 2
\* largest max_concurrent_tasks and current_tasks of the selection inputs
SelMaxCap == 2

\* HEARTBEAT_TIMEOUT_SECONDS, in clock ticks
HeartbeatTimeout == 1

\* the timeout_seconds of a TaskRequest, in clock ticks
TimeoutSeconds == 1

----------------------------------------------------------------------------
(* Enumerations and request models *)

\* class TaskType
TaskType == {"lightweight", "complex", "network", "system"}

\* class TaskStatus
TaskStatus == {"pending", "assigned", "running", "completed", "failed", "timeout"}

\* TaskPriority[name.upper()].value; 0 stands for the KeyError
TaskPriority(priority) ==
    CASE priority = "low" -> 1
      [] priority = "normal" -> 2
      [] priority = "high" -> 3
      [] priority = "critical" -> 4
      [] OTHER -> 0

\* the organelle ids that callers use
OrganelleIds == {"A", "B"}

\* a last_heartbeat string that datetime.fromisoformat rejects
BadStamp == -1

\* No object: Python's None
None == [none |-> TRUE]

\* TaskRequest bodies posted to /task/submit (task_type is any str)
RequestInputs ==
    { [task_type |-> "lightweight", priority |-> "low", payload |-> "p1",
       requires_desktop |-> FALSE, timeout_seconds |-> TimeoutSeconds],
      [task_type |-> "complex", priority |-> "critical", payload |-> "p2",
       requires_desktop |-> TRUE, timeout_seconds |-> TimeoutSeconds],
      [task_type |-> "render", priority |-> "urgent", payload |-> "p1",
       requires_desktop |-> FALSE, timeout_seconds |-> TimeoutSeconds] }

\* OrganelleCapacity bodies posted to /organelle/register and /organelle/heartbeat
\* (type, max_concurrent_tasks, current_tasks, capabilities; any int is accepted)
CapacityShapes ==
    { [type |-> "micro", max_concurrent_tasks |-> 1, current_tasks |-> 0,
       capabilities |-> {"lightweight", "complex"}],
      [type |-> "desktop-cell", max_concurrent_tasks |-> 1, current_tasks |-> 0,
       capabilities |-> {}],
      [type |-> "micro", max_concurrent_tasks |-> 0, current_tasks |-> -1,
       capabilities |-> {"lightweight"}] }

\* class OrganelleCapacity
OrganelleCapacity(id, shape, stamp) ==
    [organelle_id |-> id, type |-> shape.type,
     max_concurrent_tasks |-> shape.max_concurrent_tasks,
     current_tasks |-> shape.current_tasks,
     capabilities |-> shape.capabilities, last_heartbeat |-> stamp]

----------------------------------------------------------------------------
(* The registry dict: a sequence of <key, value> entries in insertion order *)

Keys(d) == {d[i].key : i \in 1..Len(d)}

IndexOf(d, k) == CHOOSE i \in 1..Len(d) : d[i].key = k

\* d[k]
DictGet(d, k) == d[IndexOf(d, k)].value

\* a write that keeps the load counter of the record it replaces
DictSetKeepLoad(d, k, v) ==
    IF k \in Keys(d)
    THEN [d EXCEPT ![IndexOf(d, k)].value =
              [v EXCEPT !.current_tasks = d[IndexOf(d, k)].value.current_tasks]]
    ELSE Append(d, [key |-> k, value |-> v])

\* d[k] = v: an existing key keeps its position, a new key goes last
DictSet(d, k, v) ==
    IF k \in Keys(d)
    THEN [d EXCEPT ![IndexOf(d, k)] = [key |-> k, value |-> v]]
    ELSE Append(d, [key |-> k, value |-> v])

\* a scan that deletes nothing
DictKeepAll(d, ks) == d

RECURSIVE DictDelAll(_, _)
\* del d[k] for every k in ks
DictDelAll(d, ks) ==
    IF d = <<>> THEN <<>>
    ELSE IF Head(d).key \in ks THEN DictDelAll(Tail(d), ks)
         ELSE <<Head(d)>> \o DictDelAll(Tail(d), ks)

----------------------------------------------------------------------------
(* Worker selection *)

\* TaskType(request.task_type) succeeds (otherwise it raises ValueError)
IsTaskType(request) == request.task_type \in TaskType

\* a capability check that lets every organelle handle every task
organelle_can_handle_task_any(capacity, request) == TRUE

\* organelle_can_handle_task without its desktop-cell shortcut
organelle_can_handle_task_no_desktop(capacity, request) ==
    request.task_type \in capacity.capabilities

\* organelle_can_handle_task, for a request whose task_type is a TaskType
organelle_can_handle_task(capacity, request) ==
    IF capacity.type = "desktop-cell" THEN TRUE
    ELSE CASE request.task_type = "lightweight" ->
                  "lightweight" \in capacity.capabilities
           [] request.task_type = "network" ->
                  "network" \in capacity.capabilities
           [] request.task_type = "system" ->
                  "system" \in capacity.capabilities
           [] request.task_type = "complex" ->
                  "complex" \in capacity.capabilities
           [] OTHER -> FALSE

\* calculate_organelle_fitness with the priority bonus given to desktop cells only
calculate_organelle_fitness_desktop_priority(capacity, request) ==
    LET max == capacity.max_concurrent_tasks
        load == 50 * (max - capacity.current_tasks)
        special == IF request.task_type \in capacity.capabilities THEN 30 ELSE 0
        desktop == IF capacity.type = "desktop-cell" /\ request.task_type = "complex"
                   THEN 20 ELSE 0
        bonus == IF capacity.type = "desktop-cell"
                 THEN TaskPriority(request.priority) * 5 ELSE 0
    IN  [num |-> load + max * (special + desktop + bonus), den |-> max]

\* calculate_organelle_fitness with the desktop-cell bonus given to every task type
calculate_organelle_fitness_any_desktop(capacity, request) ==
    LET max == capacity.max_concurrent_tasks
        load == 50 * (max - capacity.current_tasks)
        special == IF request.task_type \in capacity.capabilities THEN 30 ELSE 0
        desktop == IF capacity.type = "desktop-cell" THEN 20 ELSE 0
        bonus == TaskPriority(request.priority) * 5
    IN  [num |-> load + max * (special + desktop + bonus), den |-> max]

\* calculate_organelle_fitness, as the fraction num / den with
\* den = max_concurrent_tasks (the divisor of the load factor)
calculate_organelle_fitness(capacity, request) ==
    LET max == capacity.max_concurrent_tasks
        load == 50 * (max - capacity.current_tasks)
        special == IF request.task_type \in capacity.capabilities THEN 30 ELSE 0
        desktop == IF capacity.type = "desktop-cell" /\ request.task_type = "complex"
                   THEN 20 ELSE 0
        bonus == TaskPriority(request.priority) * 5
    IN  [num |-> load + max * (special + desktop + bonus), den |-> max]

\* a < b for two fitness scores with positive divisors
ScoreLess(a, b) == a.num * b.den < b.num * a.den

RECURSIVE InsertByScoreTiesLast(_, _)
\* an unstable sort step: x goes in front of candidates of the same score
InsertByScoreTiesLast(sorted, x) ==
    IF sorted = <<>> THEN <<x>>
    ELSE IF ~ScoreLess(x.score, Head(sorted).score) THEN <<x>> \o sorted
         ELSE <<Head(sorted)>> \o InsertByScoreTiesLast(Tail(sorted), x)

RECURSIVE InsertByScore(_, _)
\* one step of the stable descending sort: x goes behind every candidate whose
\* score is not lower than its own
InsertByScore(sorted, x) ==
    IF sorted = <<>> THEN <<x>>
    ELSE IF ScoreLess(Head(sorted).score, x.score) THEN <<x>> \o sorted
         ELSE <<Head(sorted)>> \o InsertByScore(Tail(sorted), x)

RECURSIVE SortByScore(_, _)
\* candidates.sort(key=lambda x: x[0], reverse=True): stable
SortByScore(candidates, sorted) ==
    IF candidates = <<>> THEN sorted
    ELSE SortByScore(Tail(candidates), InsertByScore(sorted, Head(candidates)))

RECURSIVE ScanCandidates(_, _, _)
\* the for loop of find_best_organelle over the registry entries d;
\* raised: the loop ended in ValueError or ZeroDivisionError
ScanCandidates(d, request, candidates) ==
    IF d = <<>> THEN [raised |-> FALSE, candidates |-> candidates]
    ELSE LET capacity == Head(d).value IN
         IF capacity.current_tasks >= capacity.max_concurrent_tasks
         THEN ScanCandidates(Tail(d), request, candidates)
         ELSE IF ~IsTaskType(request)
         THEN [raised |-> TRUE, candidates |-> candidates]
         ELSE IF ~organelle_can_handle_task(capacity, request)
         THEN ScanCandidates(Tail(d), request, candidates)
         ELSE IF capacity.max_concurrent_tasks = 0
         THEN [raised |-> TRUE, candidates |-> candidates]
         ELSE ScanCandidates(Tail(d), request,
                  Append(candidates,
                         [score |-> calculate_organelle_fitness(capacity, request),
                          key |-> Head(d).key, capacity |-> capacity]))

\* find_best_organelle: "raise", "none" or "found" with the chosen entry
find_best_organelle(d, request) ==
    LET scan == ScanCandidates(d, request, <<>>) IN
    IF scan.raised THEN [outcome |-> "raise"]
    ELSE IF scan.candidates = <<>> THEN [outcome |-> "none"]
    ELSE LET best == Head(SortByScore(scan.candidates, <<>>))
         IN  [outcome |-> "found", key |-> best.key, capacity |-> best.capacity]

----------------------------------------------------------------------------
(* Initial state: the dispatcher after __init__ and startup_event *)

Init ==
    /\ organelle_capacities = <<>>
    /\ task_queue = <<>>
    /\ active_tasks = <<>>
    /\ redis_tasks = <<>>
    /\ now = 0
    /\ next_id = 1
    /\ pc = "idle"
    /\ task_data = None
    /\ best_organelle = None
    /\ best_live = FALSE
    /\ removed_stale = {}
    /\ submit_response = None

----------------------------------------------------------------------------
(* Request handlers *)

\* d[k] = v for the function-valued dicts active_tasks and redis_tasks
MapSet(d, k, v) == (k :> v) @@ d

\* store_task_in_redis, when the write succeeds
store_task_in_redis(store, task_id, data) == MapSet(store, task_id, data)

\* a registry write to organelle id k replaces the object the dispatch cycle holds
Replaces(ks) == best_organelle # None /\ best_organelle.key \in ks

\* a put that writes over the last slot, as two racing appends would
QueuePutOverwrite(queue, data) ==
    IF queue = <<>> THEN <<data>> ELSE [queue EXCEPT ![Len(queue)] = data]

\* a put that jumps the queue
QueuePutFront(queue, data) == <<data>> \o queue

\* self.task_queue.put(data)
QueuePut(queue, data) == Append(queue, data)

\* f"{estimated_seconds:.1f}s" of a number of tenths of a second: the digits
\* before and after the point
FormatOneDecimal(tenths) == [whole |-> tenths \div 10, tenth |-> tenths % 10]

\* estimate_queue_time with the priority ignored
estimate_queue_time_flat(qsize, priority) == FormatOneDecimal(qsize * 2 * 10)

\* estimate_queue_time for a queue of qsize tasks; the multipliers 0.1, 0.5, 1.0
\* and 2.0 are counted in tenths
estimate_queue_time(qsize, priority) ==
    LET priority_enum == IF TaskPriority(priority) = 0 THEN TaskPriority("normal")
                         ELSE TaskPriority(priority)
        base_time == qsize * 2
        multiplier == CASE priority_enum = TaskPriority("critical") -> 1
                        [] priority_enum = TaskPriority("high") -> 5
                        [] priority_enum = TaskPriority("normal") -> 10
                        [] OTHER -> 20
    IN  FormatOneDecimal(base_time * multiplier)

\* a submission that puts its task on the queue twice
submit_task_twice(request, redis_ok) ==
    /\ next_id <= MaxTasks
    /\ LET data == [task_id |-> next_id, request |-> request, submitted_at |-> now,
                    status |-> "pending"]
           queue == QueuePut(QueuePut(task_queue, data), data)
       IN  IF redis_ok
           THEN /\ redis_tasks' = store_task_in_redis(redis_tasks, next_id, data)
                /\ task_queue' = queue
                /\ next_id' = next_id + 1
                /\ submit_response' =
                       [task_id |-> next_id, status |-> "submitted",
                        estimated_queue_time |->
                            estimate_queue_time(Len(queue), request.priority)]
           ELSE UNCHANGED <<redis_tasks, task_queue, next_id, submit_response>>
    /\ UNCHANGED <<organelle_capacities, active_tasks, now, pc, task_data,
                   best_organelle, best_live, removed_stale>>

\* POST /task/submit with body request; redis_ok = FALSE: setex raises and the
\* handler answers 500 before the task reaches the queue.  The estimate of the
\* answer is computed after the put.
submit_task(request, redis_ok) ==
    /\ next_id <= MaxTasks
    /\ LET data == [task_id |-> next_id, request |-> request, submitted_at |-> now,
                    status |-> "pending"]
           queue == QueuePut(task_queue, data)
       IN  IF redis_ok
           THEN /\ redis_tasks' = store_task_in_redis(redis_tasks, next_id, data)
                /\ task_queue' = queue
                /\ next_id' = next_id + 1
                /\ submit_response' =
                       [task_id |-> next_id, status |-> "submitted",
                        estimated_queue_time |->
                            estimate_queue_time(Len(queue), request.priority)]
           ELSE UNCHANGED <<redis_tasks, task_queue, next_id, submit_response>>
    /\ UNCHANGED <<organelle_capacities, active_tasks, now, pc, task_data,
                   best_organelle, best_live, removed_stale>>

\* POST /organelle/register: the body is stored as it is
register_organelle(capacity) ==
    /\ organelle_capacities' =
           DictSet(organelle_capacities, capacity.organelle_id, capacity)
    /\ best_live' = (best_live /\ ~Replaces({capacity.organelle_id}))
    /\ removed_stale' = removed_stale \ {capacity.organelle_id}
    /\ UNCHANGED <<task_queue, active_tasks, redis_tasks, now, next_id, pc,
                   task_data, best_organelle, submit_response>>

\* a heartbeat that stores the body with the caller's own last_heartbeat
organelle_heartbeat_unstamped(organelle_id, capacity) ==
    /\ organelle_capacities' = DictSet(organelle_capacities, organelle_id, capacity)
    /\ best_live' = (best_live /\ ~Replaces({organelle_id}))
    /\ removed_stale' = removed_stale \ {organelle_id}
    /\ UNCHANGED <<task_queue, active_tasks, redis_tasks, now, next_id, pc,
                   task_data, best_organelle, submit_response>>

\* POST /organelle/heartbeat/{organelle_id}: the body is stamped and stored
\* under the id of the path
organelle_heartbeat(organelle_id, capacity) ==
    /\ organelle_capacities' =
           DictSet(organelle_capacities, organelle_id,
                   [capacity EXCEPT !.last_heartbeat = now])
    /\ best_live' = (best_live /\ ~Replaces({organelle_id}))
    /\ removed_stale' = removed_stale \ {organelle_id}
    /\ UNCHANGED <<task_queue, active_tasks, redis_tasks, now, next_id, pc,
                   task_data, best_organelle, submit_response>>

----------------------------------------------------------------------------
(* Heartbeat monitor *)

\* a stale test that never fires
IsStaleNever(capacity, cutoff_time) == FALSE

\* a stale test that also fires at the cutoff itself
IsStaleAtCutoff(capacity, cutoff_time) ==
    IF capacity.last_heartbeat = BadStamp THEN TRUE
    ELSE capacity.last_heartbeat <= cutoff_time

\* the stale test of one registry entry
IsStale(capacity, cutoff_time) ==
    IF capacity.last_heartbeat = BadStamp THEN TRUE
    ELSE capacity.last_heartbeat < cutoff_time

\* stale_ids of one scan
StaleIds(d, cutoff_time) ==
    {d[i].key : i \in {j \in 1..Len(d) : IsStale(d[j].value, cutoff_time)}}

\* a scan that also releases what the removed organelles were assigned: their
\* Assignments are deleted and their tasks go back on the queue
monitor_heartbeats_releasing ==
    LET stale_ids == StaleIds(organelle_capacities, now - HeartbeatTimeout)
        orphans == {id \in DOMAIN active_tasks :
                       active_tasks[id].assigned_to \in stale_ids}
    IN  /\ organelle_capacities' = DictDelAll(organelle_capacities, stale_ids)
        /\ active_tasks' = [id \in DOMAIN active_tasks \ orphans |-> active_tasks[id]]
        /\ task_queue' = IF orphans = {} THEN task_queue
                         ELSE Append(task_queue, redis_tasks[CHOOSE id \in orphans : TRUE])
        /\ best_live' = (best_live /\ ~Replaces(stale_ids))
        /\ removed_stale' = removed_stale \cup stale_ids
        /\ UNCHANGED <<redis_tasks, now, next_id, pc, task_data, best_organelle,
                       submit_response>>

\* one pass of monitor_heartbeats
monitor_heartbeats ==
    LET stale_ids == StaleIds(organelle_capacities, now - HeartbeatTimeout)
    IN  /\ organelle_capacities' = DictDelAll(organelle_capacities, stale_ids)
        /\ best_live' = (best_live /\ ~Replaces(stale_ids))
        /\ removed_stale' = removed_stale \cup stale_ids
        /\ UNCHANGED <<task_queue, active_tasks, redis_tasks, now, next_id, pc,
                       task_data, best_organelle, submit_response>>

\* time passes
Tick ==
    /\ now < MaxTime
    /\ now' = now + 1
    /\ UNCHANGED <<organelle_capacities, task_queue, active_tasks, redis_tasks,
                   next_id, pc, task_data, best_organelle, best_live,
                   removed_stale,
                   submit_response>>

----------------------------------------------------------------------------
(* Dispatch loop *)

\* class TaskAssignment
TaskAssignment(task_id, assigned_to, assigned_at) ==
    [task_id |-> task_id, assigned_to |-> assigned_to, assigned_at |-> assigned_at]

\* the dispatch cycle is over: the loop sleeps until its next tick
CycleEnds ==
    /\ pc' = "idle"
    /\ task_data' = None
    /\ best_organelle' = None
    /\ best_live' = FALSE

\* an exception that ends the loop: no further cycle begins
CycleFailsStopsLoop ==
    /\ pc' = "stopped"
    /\ task_data' = None
    /\ best_organelle' = None
    /\ best_live' = FALSE

\* an exception leaves dispatch_task: the except clause of the loop logs it,
\* sleeps, and the loop goes on with its next tick
CycleFails == CycleEnds

\* a batch dispatch: the chosen organelle is also assigned every queued task
AssignTaskBatch(assignments, data, organelle, at) ==
    LET batch == {data.task_id}
                 \cup {task_queue[i].task_id : i \in 1..Len(task_queue)}
    IN  [id \in DOMAIN assignments \cup batch |->
            IF id \in batch
            THEN TaskAssignment(id, organelle.organelle_id, at)
            ELSE assignments[id]]

\* the assignment that dispatch_task records for the chosen organelle
AssignTask(assignments, data, organelle, at) ==
    MapSet(assignments, data.task_id,
           TaskAssignment(data.task_id, organelle.organelle_id, at))

\* a cycle that marks its task RUNNING
MarkRunning(data) == [data EXCEPT !.status = "running"]

\* task_data["status"] = TaskStatus.ASSIGNED.value
MarkAssigned(data) == [data EXCEPT !.status = "assigned"]

\* One tick of background_dispatch_loop with a task queued: get the task and run
\* dispatch_task up to its first suspension.  An exception out of
\* find_best_organelle is caught by the loop, which only logs it.
dispatch_begin ==
    /\ pc = "idle"
    /\ task_queue # <<>>
    /\ LET data == Head(task_queue)
           found == find_best_organelle(organelle_capacities, data.request)
       IN  /\ task_queue' = Tail(task_queue)
           /\ CASE found.outcome = "raise" ->
                     /\ CycleFails
                     /\ UNCHANGED active_tasks
                [] found.outcome = "none" ->
                     /\ pc' = "requeue"
                     /\ task_data' = data
                     /\ UNCHANGED <<active_tasks, best_organelle, best_live>>
                [] OTHER ->
                     /\ active_tasks' =
                            AssignTask(active_tasks, data, found.capacity, now)
                     /\ task_data' = MarkAssigned(data)
                     /\ best_organelle' =
                            [key |-> found.key, capacity |-> found.capacity]
                     /\ best_live' = TRUE
                     /\ pc' = "store"
    /\ UNCHANGED <<organelle_capacities, redis_tasks, now, next_id, removed_stale,
                   submit_response>>

\* dispatch_task when no organelle was found, after its sleep
dispatch_requeue ==
    /\ pc = "requeue"
    /\ task_queue' = QueuePut(task_queue, task_data)
    /\ CycleEnds
    /\ UNCHANGED <<organelle_capacities, active_tasks, redis_tasks, now, next_id,
                   removed_stale,
                   submit_response>>

\* organelle.current_tasks += 1 on the object the cycle holds: the registry sees
\* it only while it still stores that object
send_to_micro_organelle(d, organelle, live) ==
    IF live
    THEN DictSet(d, organelle.key,
                 [DictGet(d, organelle.key) EXCEPT !.current_tasks = @ + 1])
    ELSE d

\* dispatch_task after store_task_in_redis: a failed write raises out of the
\* cycle; otherwise send_task_to_organelle either starts the delivery to the
\* desktop cell or counts the task on the micro organelle
dispatch_store ==
    /\ pc = "store"
    /\ \E redis_ok \in BOOLEAN :
         IF ~redis_ok
         THEN /\ CycleFails
              /\ UNCHANGED <<organelle_capacities, redis_tasks>>
         ELSE /\ redis_tasks' =
                     store_task_in_redis(redis_tasks, task_data.task_id, task_data)
              /\ IF best_organelle.capacity.type = "desktop-cell"
                 THEN /\ pc' = "deliver"
                      /\ UNCHANGED <<organelle_capacities, task_data,
                                     best_organelle, best_live>>
                 ELSE /\ organelle_capacities' =
                             send_to_micro_organelle(organelle_capacities,
                                                     best_organelle, best_live)
                      /\ CycleEnds
    /\ UNCHANGED <<task_queue, active_tasks, now, next_id, removed_stale,
                   submit_response>>

\* what the desktop cell answers to the connection check and the POST
DesktopResponses == {"ok", "unreachable", "non200", "exception"}

\* a failed delivery that puts the task back twice, by the put of the failure
\* branch and again by the put of the except clause
send_to_desktop_cell_put_twice(queue, data, response) ==
    IF response = "ok" THEN queue ELSE QueuePut(QueuePut(queue, data), data)

\* a delivery that puts the task back on the queue whatever the cell answers
send_to_desktop_cell_always_requeue(queue, data, response) == QueuePut(queue, data)

\* the queue after send_to_desktop_cell
send_to_desktop_cell(queue, data, response) ==
    IF response = "ok" THEN queue ELSE QueuePut(queue, data)

\* send_to_desktop_cell, from the connection check to the end of the cycle
dispatch_deliver ==
    /\ pc = "deliver"
    /\ \E response \in DesktopResponses :
         task_queue' = send_to_desktop_cell(task_queue, task_data, response)
    /\ CycleEnds
    /\ UNCHANGED <<organelle_capacities, active_tasks, redis_tasks, now, next_id,
                   removed_stale,
                   submit_response>>

----------------------------------------------------------------------------
(* The dispatcher *)

\* a client submits one of RequestInputs
Submit == \E request \in RequestInputs, redis_ok \in BOOLEAN :
              submit_task(request, redis_ok)

\* an organelle registers with one of CapacityShapes
Register == \E id \in OrganelleIds, shape \in CapacityShapes,
               stamp \in {BadStamp, now} :
                register_organelle(OrganelleCapacity(id, shape, stamp))

\* an organelle reports one of CapacityShapes under its own id
Heartbeat == \E id \in OrganelleIds, shape \in CapacityShapes :
                 organelle_heartbeat(id, OrganelleCapacity(id, shape, now))

Next ==
    \/ Submit
    \/ Register
    \/ Heartbeat
    \/ monitor_heartbeats
    \/ dispatch_begin
    \/ dispatch_requeue
    \/ dispatch_store
    \/ dispatch_deliver

Spec == Init /\ [][Next]_vars

----------------------------------------------------------------------------
(* Selection on its own: the dispatch loop started on any registry content  *)
(* that register and heartbeat calls can leave behind, with one task queued *)

SelTypes == {"micro", "desktop-cell"}

SelCapSets == {{}, {"lightweight"}, {"complex", "network"}}

\* registry values: any int is accepted for the two counters
SelCapacities(id) ==
    {OrganelleCapacity(id, shape, 0) :
        shape \in [type : SelTypes, max_concurrent_tasks : 0..SelMaxCap,
                   current_tasks : -1..SelMaxCap, capabilities : SelCapSets]}

SelEntries(id) == {[key |-> id, value |-> c] : c \in SelCapacities(id)}

SelRegistries ==
    {<<>>}
    \cup {<<e>> : e \in UNION {SelEntries(id) : id \in OrganelleIds}}
    \cup {<<e1, e2>> : e1 \in SelEntries("A"), e2 \in SelEntries("B")}
    \cup {<<e2, e1>> : e1 \in SelEntries("A"), e2 \in SelEntries("B")}

SelRequests ==
    [task_type : {"lightweight", "complex", "render"},
     priority : {"low", "critical", "urgent"},
     payload : {"p1"}, requires_desktop : {FALSE},
     timeout_seconds : {TimeoutSeconds}]

SelInit ==
    /\ organelle_capacities \in SelRegistries
    /\ \E request \in SelRequests :
         LET data == [task_id |-> 1, request |-> request, submitted_at |-> 0,
                      status |-> "pending"]
         IN  /\ task_queue = <<data>>
             /\ redis_tasks = store_task_in_redis(<<>>, 1, data)
    /\ active_tasks = <<>>
    /\ now = 0
    /\ next_id = 2
    /\ pc = "idle"
    /\ task_data = None
    /\ best_organelle = None
    /\ best_live = FALSE
    /\ removed_stale = {}
    /\ submit_response = None

SelNext ==
    \/ dispatch_begin
    \/ dispatch_requeue
    \/ dispatch_store
    \/ dispatch_deliver

SelSpec == SelInit /\ [][SelNext]_vars

----------------------------------------------------------------------------
(* Registry under the clock: registrations, heartbeats and monitor scans as *)
(* time passes, with one task going round the dispatch loop                 *)

\* bodies posted in this setting: a half-loaded micro organelle and a desktop cell
HbShapes ==
    { [type |-> "micro", max_concurrent_tasks |-> 2, current_tasks |-> 1,
       capabilities |-> {"lightweight"}],
      [type |-> "desktop-cell", max_concurrent_tasks |-> 1, current_tasks |-> 0,
       capabilities |-> {}] }

\* last_heartbeat strings a caller posts: unreadable, or its own reading of the
\* current time
HbStamps == {BadStamp, now}

\* bodies of POST /organelle/register
HbRegisterBodies ==
    {OrganelleCapacity(id, shape, stamp) :
        id \in OrganelleIds, shape \in HbShapes, stamp \in HbStamps}

\* bodies of POST /organelle/heartbeat/{organelle_id}: the organelle_id of the body
\* is not compared with the one of the path
HbHeartbeatBodies ==
    {OrganelleCapacity(id, shape, BadStamp) : id \in OrganelleIds, shape \in HbShapes}

HbInit ==
    /\ organelle_capacities = <<>>
    /\ LET data == [task_id |-> 1,
                    request |-> [task_type |-> "lightweight", priority |-> "low",
                                 payload |-> "p1", requires_desktop |-> FALSE,
                                 timeout_seconds |-> TimeoutSeconds],
                    submitted_at |-> 0, status |-> "pending"]
       IN  /\ task_queue = <<data>>
           /\ redis_tasks = store_task_in_redis(<<>>, 1, data)
    /\ active_tasks = <<>>
    /\ now = 0
    /\ next_id = 2
    /\ pc = "idle"
    /\ task_data = None
    /\ best_organelle = None
    /\ best_live = FALSE
    /\ removed_stale = {}
    /\ submit_response = None

HbRegister == \E capacity \in HbRegisterBodies : register_organelle(capacity)

HbHeartbeat == \E organelle_id \in OrganelleIds, capacity \in HbHeartbeatBodies :
                   organelle_heartbeat(organelle_id, capacity)

HbNext ==
    \/ HbRegister
    \/ HbHeartbeat
    \/ monitor_heartbeats
    \/ Tick
    \/ dispatch_begin
    \/ dispatch_requeue
    \/ dispatch_store
    \/ dispatch_deliver

HbSpec == HbInit /\ [][HbNext]_vars

----------------------------------------------------------------------------
(* The registry and the clock alone: no task is ever submitted, so the      *)
(* dispatch loop finds its queue empty at every tick                        *)

ClockInit ==
    /\ organelle_capacities = <<>>
    /\ task_queue = <<>>
    /\ active_tasks = <<>>
    /\ redis_tasks = <<>>
    /\ now = 0
    /\ next_id = 1
    /\ pc = "idle"
    /\ task_data = None
    /\ best_organelle = None
    /\ best_live = FALSE
    /\ removed_stale = {}
    /\ submit_response = None

ClockNext ==
    \/ HbRegister
    \/ HbHeartbeat
    \/ monitor_heartbeats
    \/ Tick

\* the monitor loop and the clock never stop: monitor_heartbeats is a task that
\* startup creates and whose body catches every exception, and time passes
ClockSpec ==
    ClockInit /\ [][ClockNext]_vars /\ WF_vars(monitor_heartbeats) /\ WF_vars(Tick)

----------------------------------------------------------------------------
(* The queue on its own: submissions and the dispatch loop over a registry  *)
(* that no longer changes                                                   *)

\* the registry is empty or holds one organelle of one of CapacityShapes
QueueRegistries ==
    {<<>>} \cup {<<[key |-> "A", value |-> OrganelleCapacity("A", shape, 0)]>> :
                    shape \in CapacityShapes}

\* submissions of every priority name, and of one that is none
QueueRequests ==
    [task_type : {"lightweight", "complex", "render"},
     priority : {"low", "normal", "high", "critical", "urgent"},
     payload : {"p1"}, requires_desktop : {FALSE},
     timeout_seconds : {TimeoutSeconds}]

QueueInit ==
    /\ organelle_capacities \in QueueRegistries
    /\ task_queue = <<>>
    /\ active_tasks = <<>>
    /\ redis_tasks = <<>>
    /\ now = 0
    /\ next_id = 1
    /\ pc = "idle"
    /\ task_data = None
    /\ best_organelle = None
    /\ best_live = FALSE
    /\ removed_stale = {}
    /\ submit_response = None

QueueSubmit == \E request \in QueueRequests, redis_ok \in BOOLEAN :
                   submit_task(request, redis_ok)

QueueNext ==
    \/ QueueSubmit
    \/ dispatch_begin
    \/ dispatch_requeue
    \/ dispatch_store
    \/ dispatch_deliver

QueueSpec == QueueInit /\ [][QueueNext]_vars

\* the same with the submissions of RequestInputs
QueueFairNext ==
    \/ Submit
    \/ dispatch_begin
    \/ dispatch_requeue
    \/ dispatch_store
    \/ dispatch_deliver

\* the dispatch loop never stops: background_dispatch_loop is a task that
\* startup creates, its body catches every exception, and every sleep and
\* every request it awaits ends (the requests carry timeouts)
QueueFairSpec ==
    /\ QueueInit
    /\ [][QueueFairNext]_vars
    /\ WF_vars(dispatch_begin)
    /\ WF_vars(dispatch_requeue)
    /\ WF_vars(dispatch_store)
    /\ WF_vars(dispatch_deliver)

----------------------------------------------------------------------------
(* Vocabulary of the properties *)

\* the ids of the tasks in the queue
QueuedIds == {task_queue[i].task_id : i \in 1..Len(task_queue)}

\* the ids of the tasks Submit has accepted
AcceptedIds == 1..(next_id - 1)

\* the tail of the queue
LastQueued(queue) == queue[Len(queue)]

\* a dispatch cycle takes the head of the queue in this step
CycleBegins == pc = "idle" /\ task_queue # <<>> /\ task_queue' = Tail(task_queue)

\* a dispatch cycle chooses a worker in this step
WorkerChosen == CycleBegins /\ pc' = "store"

\* a dispatch cycle finds no worker in this step
NoWorkerFound == CycleBegins /\ pc' = "requeue"

\* the delivery to the desktop cell fails in this step: the task is requeued
DeliveryFails == pc = "deliver" /\ pc' = "idle" /\ task_queue' # task_queue

\* the workers of registry d that the specification calls eligible for a kind
Eligible(d, kind) ==
    {d[i].key : i \in {j \in 1..Len(d) :
        /\ d[j].value.current_tasks < d[j].value.max_concurrent_tasks
        /\ \/ d[j].value.type = "desktop-cell"
           \/ kind \in d[j].value.capabilities}}

\* the workers find_best_organelle scores for a request
Considered(d, request) ==
    LET candidates == ScanCandidates(d, request, <<>>).candidates
    IN  {candidates[i].key : i \in 1..Len(candidates)}

\* a request of a kind
RequestOf(kind) ==
    [task_type |-> kind, priority |-> "normal", payload |-> "p1",
     requires_desktop |-> FALSE, timeout_seconds |-> TimeoutSeconds]

----------------------------------------------------------------------------
(* Properties *)

\* C1: in every reachable state every registered worker has
\* 0 <= current_tasks <= max_concurrent_tasks.
C1_CapacityInvariant ==
    \A i \in 1..Len(organelle_capacities) :
        LET capacity == organelle_capacities[i].value
        IN  /\ 0 <= capacity.current_tasks
            /\ capacity.current_tasks <= capacity.max_concurrent_tasks

\* C2: every accepted task is at all times in the queue, held by the running
\* dispatch cycle, or recorded as assigned.
C2_NoTaskLoss ==
    \A id \in AcceptedIds :
        \/ id \in QueuedIds
        \/ (task_data # None /\ task_data.task_id = id)
        \/ id \in DOMAIN active_tasks

\* C3: when a delivery fails, the task's Assignment is deleted and the chosen
\* worker's load is back at its value before the assignment.
C3_DeliveryFailureReleases ==
    [][DeliveryFails =>
          /\ task_data.task_id \notin DOMAIN active_tasks'
          /\ best_live =>
                DictGet(organelle_capacities', best_organelle.key).current_tasks
                    = best_organelle.capacity.current_tasks]_vars

\* C4: a task whose delivery fails is back in the queue with the same id, the same
\* payload and status PENDING.
C4_RequeueRoundTrip ==
    [][DeliveryFails =>
          /\ task_queue' = Append(task_queue, LastQueued(task_queue'))
          /\ LastQueued(task_queue').task_id = task_data.task_id
          /\ LastQueued(task_queue').request = redis_tasks[task_data.task_id].request
          /\ LastQueued(task_queue').status = "pending"]_vars

\* C5: a cycle that finds no eligible worker re-enqueues the task it popped with
\* the same id and payload and status PENDING, and leaves the registry and the
\* assignments as they were.
C5_NoWorkerRequeuesUnchanged ==
    [][/\ NoWorkerFound =>
            /\ task_data' = Head(task_queue)
            /\ UNCHANGED <<organelle_capacities, active_tasks>>
       /\ (pc = "requeue" /\ pc' = "idle") =>
            /\ task_queue' = Append(task_queue, task_data)
            /\ LastQueued(task_queue').request = redis_tasks[task_data.task_id].request
            /\ LastQueued(task_queue').status = "pending"
            /\ UNCHANGED <<organelle_capacities, active_tasks>>]_vars

\* C6: a cycle that chooses worker W for task T records the Assignment of T's id to
\* W's id and moves T from PENDING to ASSIGNED, before any delivery.
C6_AssignmentRecorded ==
    [][WorkerChosen =>
          LET data == Head(task_queue) IN
          /\ data.status = "pending"
          /\ task_data' = [data EXCEPT !.status = "assigned"]
          /\ data.task_id \in DOMAIN active_tasks'
          /\ active_tasks'[data.task_id].task_id = data.task_id
          /\ active_tasks'[data.task_id].assigned_to
                = best_organelle'.capacity.organelle_id
          /\ \A id \in DOMAIN active_tasks' \ {data.task_id} :
                id \in DOMAIN active_tasks /\ active_tasks'[id] = active_tasks[id]]_vars

\* C7: a cycle that ends with the task assigned to worker W (the Assignment in
\* place, the task recorded as ASSIGNED and not requeued) has raised W's load in
\* the registry by exactly 1, whatever W's type, and no other load.
C7_AssignmentIncrementsLoad ==
    [][(/\ pc \in {"store", "deliver"}
        /\ pc' = "idle"
        /\ best_live
        /\ task_data.task_id \in DOMAIN active_tasks'
        /\ redis_tasks'[task_data.task_id].status = "assigned"
        /\ task_data.task_id \notin QueuedIds') =>
          /\ Len(organelle_capacities') = Len(organelle_capacities)
          /\ \A i \in 1..Len(organelle_capacities) :
                organelle_capacities'[i].value.current_tasks =
                    IF organelle_capacities[i].key = best_organelle.key
                    THEN organelle_capacities[i].value.current_tasks + 1
                    ELSE organelle_capacities[i].value.current_tasks]_vars

\* C8: no dispatch cycle creates an Assignment for a task that still has one.
C8_OneAssignmentAtATime ==
    [][WorkerChosen => Head(task_queue).task_id \notin DOMAIN active_tasks]_vars

C10_BestIsArgmax ==
    [][(CycleBegins /\ IsTaskType(Head(task_queue).request)) =>
          LET request == Head(task_queue).request
              eligible == Eligible(organelle_capacities, request.task_type)
              Score(k) == calculate_organelle_fitness(
                              DictGet(organelle_capacities, k), request)
          IN  /\ pc' = "requeue" <=> eligible = {}
              /\ eligible # {} =>
                    /\ pc' = "store"
                    /\ best_organelle'.key \in eligible
                    /\ \A k \in eligible :
                          ~ScoreLess(Score(best_organelle'.key), Score(k))]_vars

----------------------------------------------------------------------------
(* Fitness score and tie-break *)

\* the priority ordinals the specification gives
PriorityOrdinal == [low |-> 1, normal |-> 2, high |-> 3, critical |-> 4]

\* every task of a known kind and a known priority
KnownRequests ==
    [task_type : TaskType, priority : DOMAIN PriorityOrdinal,
     payload : {"p1"}, requires_desktop : {FALSE},
     timeout_seconds : {TimeoutSeconds}]

\* the terms the specification adds to the load term, for worker w and task r
SpecifiedBonuses(w, r) ==
    (IF r.task_type \in w.capabilities THEN 30 ELSE 0)
    + (IF w.type = "desktop-cell" /\ r.task_type = "complex" THEN 20 ELSE 0)
    + 5 * PriorityOrdinal[r.priority]

\* C11: when a dispatch cycle begins, for every registered worker with a
\* non-zero maximum and every task of a known kind and priority, the fitness
\* score equals 50 * (1 - load / max) + 30 if the kind is in the worker's
\* capabilities + 20 if the worker is a desktop cell and the kind is complex
\* + 5 * the priority ordinal (both sides multiplied by max).
C11_FitnessFormula ==
    [][CycleBegins =>
          \A i \in 1..Len(organelle_capacities) : \A r \in KnownRequests :
              LET w == organelle_capacities[i].value
                  score == calculate_organelle_fitness(w, r)
              IN  w.max_concurrent_tasks # 0 =>
                      score.num * w.max_concurrent_tasks
                          = score.den * (50 * w.max_concurrent_tasks
                                         - 50 * w.current_tasks
                                         + w.max_concurrent_tasks
                                             * SpecifiedBonuses(w, r))]_vars

\* a half-loaded desktop cell that lists the kind was scored 95 = 25 + 30 + 20 + 20
\* for a critical complex task and chosen
C11_Witness ==
    /\ pc = "store"
    /\ task_data.request.task_type = "complex"
    /\ task_data.request.priority = "critical"
    /\ best_organelle.capacity.type = "desktop-cell"
    /\ "complex" \in best_organelle.capacity.capabilities
    /\ best_organelle.capacity.max_concurrent_tasks = 2
    /\ best_organelle.capacity.current_tasks = 1
    /\ calculate_organelle_fitness(best_organelle.capacity, task_data.request)
           = [num |-> 190, den |-> 2]

\* the score of the worker stored under key k of registry d for request r
ScoreOf(d, k, r) == calculate_organelle_fitness(DictGet(d, k), r)

\* two fitness scores are the same number
SameScore(a, b) == a.num * b.den = b.num * a.den

\* C12: when a dispatch cycle chooses a worker, no eligible worker has a higher
\* score, and of the eligible workers that share the chosen worker's score the
\* chosen one comes first in the registry's iteration order.
C12_TieBreakFirst ==
    [][WorkerChosen =>
          LET d == organelle_capacities
              r == Head(task_queue).request
              chosen == best_organelle'.key
          IN  /\ chosen \in Eligible(d, r.task_type)
              /\ \A k \in Eligible(d, r.task_type) :
                    /\ ~ScoreLess(ScoreOf(d, chosen, r), ScoreOf(d, k, r))
                    /\ SameScore(ScoreOf(d, chosen, r), ScoreOf(d, k, r))
                          => IndexOf(d, chosen) <= IndexOf(d, k)]_vars

\* two eligible workers tied and the one inserted first, B, was chosen
C12_Witness ==
    /\ pc = "store"
    /\ Len(organelle_capacities) = 2
    /\ organelle_capacities[1].key = "B"
    /\ Eligible(organelle_capacities, task_data.request.task_type) = {"A", "B"}
    /\ SameScore(ScoreOf(organelle_capacities, "A", task_data.request),
                 ScoreOf(organelle_capacities, "B", task_data.request))
    /\ best_organelle.key = "B"

----------------------------------------------------------------------------
(* Eviction *)

\* C14: a worker the monitor removed is absent from the registry until it
\* registers or heartbeats again, and until then no dispatch cycle chooses it.
C14_EvictedNotChosen ==
    [][/\ removed_stale' \cap Keys(organelle_capacities') = {}
       /\ WorkerChosen => best_organelle'.key \notin removed_stale]_vars

\* A was removed by a scan and has not come back; a later cycle chose B
C14_Witness ==
    /\ removed_stale = {"A"}
    /\ pc = "store"
    /\ active_tasks[task_data.task_id].assigned_at > 0
    /\ best_organelle.key = "B"

\* the age of a heartbeat stamp is within the timeout
WithinTimeout(entry) ==
    /\ entry.value.last_heartbeat # BadStamp
    /\ now - entry.value.last_heartbeat <= HeartbeatTimeout

\* C15: a step that removes workers from the registry removes exactly those
\* whose heartbeat is older than the timeout or unreadable, and leaves every
\* other worker in place with its record unchanged.
C15_ScanRemovesExactlyStale ==
    [][Len(organelle_capacities') < Len(organelle_capacities) =>
          organelle_capacities' = SelectSeq(organelle_capacities, WithinTimeout)]_vars

\* a scan removed A while B, whose heartbeat is exactly one timeout old, stays
C15_Witness ==
    /\ removed_stale = {"A"}
    /\ Keys(organelle_capacities) = {"B"}
    /\ DictGet(organelle_capacities, "B").last_heartbeat = now - HeartbeatTimeout
    /\ now = MaxTime

----------------------------------------------------------------------------
(* Queue order and estimated wait *)

\* C16: the queue changes only by losing its head to the dispatch loop, which
\* then holds that task, or by gaining one task at its tail (a submission or a
\* requeue), whatever the priorities: tasks are popped in the order in which
\* they were enqueued.
C16_QueueIsFifo ==
    [][\/ task_queue' = task_queue
       \/ /\ task_queue # <<>>
          /\ task_queue' = Tail(task_queue)
          /\ pc' \in {"store", "requeue"}
                => task_data'.task_id = Head(task_queue).task_id
       \/ /\ Len(task_queue') = Len(task_queue) + 1
          /\ SubSeq(task_queue', 1, Len(task_queue)) = task_queue]_vars

\* the LOW task submitted first was popped while the CRITICAL task submitted
\* after it still waits
C16_Witness ==
    /\ pc \in {"store", "requeue"}
    /\ task_data.task_id = 1
    /\ task_data.request.priority = "low"
    /\ task_queue # <<>>
    /\ Head(task_queue).task_id = 2
    /\ Head(task_queue).request.priority = "critical"

\* the multipliers the specification gives, in tenths
SpecifiedMultiplier(priority) ==
    IF priority = "critical" THEN 1
    ELSE IF priority = "high" THEN 5
    ELSE IF priority = "low" THEN 20
    ELSE 10

\* an estimate, in tenths of a second
Tenths(estimate) == estimate.whole * 10 + estimate.tenth

\* priority names, recognised and not, from the lowest to the highest
PriorityNames == <<"low", "normal", "high", "critical">>

\* C17: the estimate a submission returns is queueDepth * 2 s * multiplier
\* (0.1 critical, 0.5 high, 1.0 normal, 2.0 low, 1.0 for an unrecognised
\* priority), queueDepth being the length of the queue when the estimate is
\* made; and for the depth of any reachable queue the estimate does not
\* increase as the priority rises.
C17_EstimatedWait ==
    [][/\ submit_response' # submit_response =>
            Tenths(submit_response'.estimated_queue_time)
                = Len(task_queue') * 2
                    * SpecifiedMultiplier(LastQueued(task_queue').request.priority)
       /\ \A i, j \in 1..Len(PriorityNames) :
            i <= j => Tenths(estimate_queue_time(Len(task_queue), PriorityNames[j]))
                        <= Tenths(estimate_queue_time(Len(task_queue), PriorityNames[i]))
      ]_vars

\* a CRITICAL task submitted behind one queued task was told 0.4s
C17_Witness ==
    /\ submit_response # None
    /\ submit_response.task_id = 2
    /\ redis_tasks[2].request.priority = "critical"
    /\ submit_response.estimated_queue_time = [whole |-> 0, tenth |-> 4]

----------------------------------------------------------------------------
(* Register and heartbeat *)

\* C18: a register call leaves the submitted record, with the load the caller
\* reported, under the worker's id (a new entry if the id was unknown, the same
\* entry otherwise), and changes no other worker's record, nor the queue, nor
\* the assignments.
C18_RegisterFrame ==
    [][\A capacity \in HbRegisterBodies :
          register_organelle(capacity) =>
              LET d == organelle_capacities
                  id == capacity.organelle_id
              IN  /\ id \in Keys(organelle_capacities')
                  /\ DictGet(organelle_capacities', id) = capacity
                  /\ Len(organelle_capacities')
                        = IF id \in Keys(d) THEN Len(d) ELSE Len(d) + 1
                  /\ \A k \in OrganelleIds \ {id} :
                        /\ k \in Keys(d) <=> k \in Keys(organelle_capacities')
                        /\ k \in Keys(d)
                              => DictGet(organelle_capacities', k) = DictGet(d, k)
                  /\ task_queue' = task_queue
                  /\ active_tasks' = active_tasks]_vars

\* A registered with a load of 1 and an unreadable stamp while B was registered:
\* only a register call stores such a record
C18_Witness ==
    /\ Len(organelle_capacities) = 2
    /\ organelle_capacities[1].key = "B"
    /\ organelle_capacities[2].key = "A"
    /\ organelle_capacities[2].value.organelle_id = "A"
    /\ organelle_capacities[2].value.current_tasks = 1
    /\ organelle_capacities[2].value.last_heartbeat = BadStamp

\* C19: a heartbeat call leaves, under the id of its path, a record stamped with
\* the current time that carries the load the caller reported; and no step
\* removes a worker whose heartbeat stamp is less than the timeout old.
C19_HeartbeatKeepsAlive ==
    [][/\ \A organelle_id \in OrganelleIds, capacity \in HbHeartbeatBodies :
            organelle_heartbeat(organelle_id, capacity) =>
                /\ organelle_id \in Keys(organelle_capacities')
                /\ DictGet(organelle_capacities', organelle_id).last_heartbeat = now
                /\ DictGet(organelle_capacities', organelle_id).current_tasks
                      = capacity.current_tasks
       /\ \A i \in 1..Len(organelle_capacities) :
            LET stamp == organelle_capacities[i].value.last_heartbeat
            IN  (stamp # BadStamp /\ stamp <= now /\ now - stamp < HeartbeatTimeout)
                    => organelle_capacities[i].key \in Keys(organelle_capacities')
      ]_vars

\* at the end of the clock A carries a stamp of this very tick and the load it
\* reported, and is registered, while a scan has removed B
C19_Witness ==
    /\ now = MaxTime
    /\ removed_stale = {"B"}
    /\ Keys(organelle_capacities) = {"A"}
    /\ DictGet(organelle_capacities, "A").last_heartbeat = now
    /\ DictGet(organelle_capacities, "A").current_tasks = 1

\* C20: every registry record is stored under the worker id it carries, so no
\* two records carry the same worker id.
C20_KeyIsWorkerId ==
    \A i \in 1..Len(organelle_capacities) :
        organelle_capacities[i].key = organelle_capacities[i].value.organelle_id

----------------------------------------------------------------------------
(* Concurrency of the dispatch cycle *)

\* the cycle counts its task on a micro organelle in this step
MicroDelivery ==
    /\ pc = "store"
    /\ pc' = "idle"
    /\ best_organelle.capacity.type # "desktop-cell"
    /\ redis_tasks'[task_data.task_id].status = "assigned"
    /\ task_queue' = task_queue

\* C21: selection and load increment of one dispatch decision are one atomic
\* step, so when the cycle counts its task on the chosen worker the registry
\* record of that worker carries the load read at selection plus one, within
\* max_concurrent_tasks.
C21_IncrementLandsInRegistry ==
    [][MicroDelivery =>
          /\ best_organelle.key \in Keys(organelle_capacities')
          /\ LET capacity == DictGet(organelle_capacities', best_organelle.key)
             IN  /\ capacity.current_tasks
                       = best_organelle.capacity.current_tasks + 1
                 /\ capacity.current_tasks <= capacity.max_concurrent_tasks]_vars

\* the cycle puts the task it holds back on the queue in this step
CycleRequeues ==
    \/ pc = "requeue" /\ pc' = "idle"
    \/ DeliveryFails

\* a submission is accepted in this step
SubmitAccepted == next_id' = next_id + 1

\* C22: however submissions interleave with the dispatch loop, a queued task
\* stays in the queue until the loop pops it, the task of an accepted submission
\* and the task the loop requeues are in the queue after the step, and no task
\* is in the queue twice.
C22_EnqueuesLoseNothing ==
    [][/\ \A id \in QueuedIds :
            \/ id \in {task_queue'[i].task_id : i \in 1..Len(task_queue')}
            \/ CycleBegins /\ id = Head(task_queue).task_id
       /\ SubmitAccepted
            => next_id \in {task_queue'[i].task_id : i \in 1..Len(task_queue')}
       /\ CycleRequeues
            => task_data.task_id \in {task_queue'[i].task_id : i \in 1..Len(task_queue')}
       /\ \A i, j \in 1..Len(task_queue') :
            task_queue'[i].task_id = task_queue'[j].task_id => i = j]_vars

\* task 2 was submitted while the cycle held task 1, which was then requeued
\* behind it
C22_Witness ==
    /\ pc = "idle"
    /\ Len(task_queue) = 2
    /\ task_queue[1].task_id = 2
    /\ task_queue[2].task_id = 1

\* the cycle leaves the step that follows the choice of a worker
AfterChoice == pc = "store" /\ pc' # "store"

\* C23: a durable-store failure does not derail routing: the cycle that has
\* chosen a worker goes on to deliver the task (it starts the delivery to the
\* desktop cell or counts the task on the micro organelle) or puts it back on
\* the queue, so no Assignment is left without delivery or requeue.
C23_StoreFailureStillRoutes ==
    [][AfterChoice =>
          \/ pc' = "deliver"
          \/ organelle_capacities' # organelle_capacities
          \/ task_data.task_id \in {task_queue'[i].task_id : i \in 1..Len(task_queue')}
      ]_vars

----------------------------------------------------------------------------
(* Scenarios *)

\* no desktop cell is registered
NoDesktopCell ==
    \A i \in 1..Len(organelle_capacities) :
        organelle_capacities[i].value.type # "desktop-cell"

\* a cycle begins with a COMPLEX task that is still PENDING
ComplexPendingPopped ==
    /\ CycleBegins
    /\ Head(task_queue).request.task_type = "complex"
    /\ Head(task_queue).status = "pending"

\* the cycle goes to its requeue with the popped task as it was and no Assignment
RequeuedUnassigned ==
    /\ pc' = "requeue"
    /\ task_data' = Head(task_queue)
    /\ active_tasks' = active_tasks

\* the requeue of a COMPLEX PENDING task puts it back as it is
ComplexRequeueKeeps ==
    (pc = "requeue" /\ pc' = "idle" /\ task_data.request.task_type = "complex"
        /\ task_data.status = "pending")
      => /\ task_queue' = Append(task_queue, task_data)
         /\ active_tasks' = active_tasks

DeliveredTo(id) ==
    {t \in DOMAIN active_tasks :
        /\ active_tasks[t].assigned_to = id
        /\ redis_tasks[t].status = "assigned"
        /\ t \notin QueuedIds}

\* C25: a worker with max_concurrent_tasks = 1, of either type, that was sent
\* a task whose load has not been released is not chosen for a second task:
\* the second task stays in the queue and the worker never has two tasks.
C25_SecondTaskWaits ==
    [][WorkerChosen =>
          (best_organelle'.capacity.max_concurrent_tasks = 1
              => DeliveredTo(best_organelle'.capacity.organelle_id) = {})]_vars

----------------------------------------------------------------------------
(* Task records *)

\* C26: an accepted submission appends exactly one task at the tail of the
\* queue; the task is PENDING and its id is one no earlier task has had; the
\* registry and the assignments are unchanged.
C26_SubmitCreatesFreshPending ==
    [][SubmitAccepted =>
          LET task == LastQueued(task_queue')
          IN  /\ task_queue' = Append(task_queue, task)
              /\ task.task_id \notin AcceptedIds
              /\ task.task_id \notin DOMAIN redis_tasks
              /\ task.task_id \notin DOMAIN active_tasks
              /\ task.task_id \notin QueuedIds
              /\ task.status = "pending"
              /\ organelle_capacities' = organelle_capacities
              /\ active_tasks' = active_tasks]_vars

\* task 2 was accepted, PENDING at the tail, while task 1 was already assigned
C26_Witness ==
    /\ submit_response # None
    /\ submit_response.task_id = 2
    /\ task_queue # <<>>
    /\ LastQueued(task_queue).task_id = 2
    /\ LastQueued(task_queue).status = "pending"
    /\ 1 \in DOMAIN active_tasks
    /\ organelle_capacities # <<>>

\* C27: every task in the queue has status PENDING and no entry in the
\* active-assignment table.
C27_QueuedArePendingUnassigned ==
    \A i \in 1..Len(task_queue) :
        /\ task_queue[i].status = "pending"
        /\ task_queue[i].task_id \notin DOMAIN active_tasks

\* the statuses the dispatcher owns, and the terminal ones
DispatcherStatuses == {"pending", "assigned"}

TerminalStatuses == {"completed", "failed", "timeout"}

\* the task records after the step: the durable ones, the queued ones and the
\* one the cycle holds
RecordsAfter ==
    {redis_tasks'[id] : id \in DOMAIN redis_tasks'}
    \cup {task_queue'[i] : i \in 1..Len(task_queue')}
    \cup (IF task_data' = None THEN {} ELSE {task_data'})

\* C28: every status the dispatcher leaves in a task record is PENDING or
\* ASSIGNED; a durable record is created PENDING, never goes back from ASSIGNED
\* to PENDING and never leaves a terminal status.
C28_OnlyPendingAndAssigned ==
    [][/\ \A record \in RecordsAfter : record.status \in DispatcherStatuses
       /\ \A id \in DOMAIN redis_tasks' :
            IF id \in DOMAIN redis_tasks
            THEN /\ redis_tasks[id].status = "assigned"
                      => redis_tasks'[id].status = "assigned"
                 /\ redis_tasks[id].status \in TerminalStatuses
                      => redis_tasks'[id].status = redis_tasks[id].status
            ELSE redis_tasks'[id].status = "pending"]_vars

\* task 1 was written ASSIGNED while task 2 is recorded PENDING
C28_Witness ==
    /\ DOMAIN redis_tasks = {1, 2}
    /\ redis_tasks[1].status = "assigned"
    /\ redis_tasks[2].status = "pending"

\* C29: once a task's timeout_seconds have elapsed since its submission without
\* a terminal status, the task has status TIMEOUT and no Assignment.
C29_TimeoutExpires ==
    \A id \in DOMAIN redis_tasks :
        (/\ now - redis_tasks[id].submitted_at > redis_tasks[id].request.timeout_seconds
         /\ redis_tasks[id].status \notin {"completed", "failed"})
          => /\ redis_tasks[id].status = "timeout"
             /\ id \notin DOMAIN active_tasks

----------------------------------------------------------------------------
(* One task per tick *)

\* the tasks whose Assignment is written in this step
AssignmentsWritten ==
    {id \in DOMAIN active_tasks' :
        id \notin DOMAIN active_tasks \/ active_tasks'[id] # active_tasks[id]}

\* C30: the queue loses a task, and an Assignment is written, only in the step
\* that begins a tick of the dispatch loop; that step takes one task, the head,
\* and writes at most the Assignment of that task, whatever is queued or free.
C30_OneTaskPerTick ==
    [][/\ Len(task_queue') < Len(task_queue) => CycleBegins
       /\ AssignmentsWritten # {}
            => /\ CycleBegins
               /\ AssignmentsWritten = {Head(task_queue).task_id}]_vars

\* one task was assigned to a desktop cell, which stays free for more, and the
\* other task still waits in the queue
C30_Witness ==
    /\ pc = "store"
    /\ Len(task_queue) = 1
    /\ DOMAIN active_tasks = {task_data.task_id}
    /\ best_organelle.capacity.type = "desktop-cell"
    /\ Eligible(organelle_capacities, Head(task_queue).request.task_type) # {}

----------------------------------------------------------------------------
(* After the delivery *)

\* the delivery of the task the cycle holds succeeds in this step: the task is
\* counted on the micro organelle, or the desktop cell answers 200
DeliverySucceeds ==
    \/ MicroDelivery
    \/ /\ pc = "deliver"
       /\ pc' = "idle"
       /\ task_queue' = send_to_desktop_cell(task_queue, task_data, "ok")

\* task id was delivered: it has its Assignment, its record says ASSIGNED, and
\* neither the queue nor the dispatch cycle holds it
Delivered(id) ==
    /\ id \in DOMAIN active_tasks
    /\ redis_tasks[id].status = "assigned"
    /\ id \notin QueuedIds
    /\ task_data = None \/ task_data.task_id # id

\* the same, after the step
DeliveredAfter(id) ==
    /\ id \in DOMAIN active_tasks'
    /\ redis_tasks'[id].status = "assigned"
    /\ id \notin {task_queue'[i].task_id : i \in 1..Len(task_queue')}
    /\ task_data' = None \/ task_data'.task_id # id

\* C31: a step in which a delivery succeeds leaves the task ASSIGNED, with its
\* Assignment, and out of the queue; and once that is so no later step puts the
\* task back on the queue or hands it to a dispatch cycle again.
C31_DeliveredStaysAssigned ==
    [][/\ DeliverySucceeds => DeliveredAfter(task_data.task_id)
       /\ \A id \in AcceptedIds : Delivered(id) => DeliveredAfter(id)]_vars

\* task 1 was delivered to the desktop cell, and a cycle has since taken task 2
C31_Witness ==
    /\ Delivered(1)
    /\ active_tasks[1].assigned_to = "A"
    /\ DictGet(organelle_capacities, "A").type = "desktop-cell"
    /\ pc = "deliver"
    /\ task_data.task_id = 2

----------------------------------------------------------------------------
(* Eviction and its frame *)

\* the heartbeat monitor removes workers in this step
Eviction == Len(organelle_capacities') < Len(organelle_capacities)

\* C32: a step in which the heartbeat monitor removes workers changes the
\* registry only: the queue, the active-assignment table and the task records
\* are as before, so an Assignment that names a removed worker stays in place
\* and its task is not requeued.
C32_EvictionFrame ==
    [][Eviction =>
          /\ task_queue' = task_queue
          /\ active_tasks' = active_tasks
          /\ redis_tasks' = redis_tasks
          /\ \A id \in DOMAIN active_tasks :
                active_tasks[id].assigned_to \notin Keys(organelle_capacities')
                    => /\ id \in DOMAIN active_tasks'
                       /\ active_tasks'[id].assigned_to = active_tasks[id].assigned_to
                       /\ (id \notin QueuedIds
                             => id \notin {task_queue'[i].task_id :
                                              i \in 1..Len(task_queue')})]_vars

\* A was removed by a scan after task 1 was sent to it: the Assignment still
\* names A and the task is not in the queue
C32_Witness ==
    /\ removed_stale = {"A"}
    /\ "A" \notin Keys(organelle_capacities)
    /\ pc = "idle"
    /\ 1 \in DOMAIN active_tasks
    /\ active_tasks[1].assigned_to = "A"
    /\ redis_tasks[1].status = "assigned"
    /\ task_queue = <<>>

----------------------------------------------------------------------------
(* Liveness of the eviction *)

\* worker id is registered with heartbeat stamp stamp
RegisteredAt(id, stamp) ==
    /\ id \in Keys(organelle_capacities)
    /\ DictGet(organelle_capacities, id).last_heartbeat = stamp

\* the stamps that the clock can still leave more than one timeout behind
EvictableStamps == {BadStamp} \cup 0..(MaxTime - HeartbeatTimeout - 1)

\* C33: while the monitor keeps scanning and time advances, a registered worker
\* does not keep its heartbeat stamp for ever: it is re-stamped by a heartbeat or
\* a registration, or it is removed from the registry.
C33_SilentWorkerRemoved ==
    \A id \in OrganelleIds : \A stamp \in EvictableStamps :
        RegisteredAt(id, stamp) ~> ~RegisteredAt(id, stamp)

\* A and B have both been removed, more than one timeout after the start
C33_Witness ==
    /\ removed_stale = {"A", "B"}
    /\ organelle_capacities = <<>>
    /\ now > HeartbeatTimeout

----------------------------------------------------------------------------
(* Liveness of the dispatch *)

\* a registered worker with free capacity is eligible for the kind of task id
HasFreeWorker(id) ==
    /\ id \in DOMAIN redis_tasks
    /\ Eligible(organelle_capacities, redis_tasks[id].request.task_type) # {}

\* C34: under a fair dispatch loop, a task that is in the queue at a moment from
\* which a worker eligible for it with free capacity always exists is eventually
\* assigned, whatever waits in front of it.
C34_QueuedEventuallyAssigned ==
    \A id \in 1..MaxTasks :
        []((id \in QueuedIds /\ []HasFreeWorker(id)) => <>(id \in DOMAIN active_tasks))

----------------------------------------------------------------------------
(* The chosen record at the delivery *)

\* the cycle hands its task to the chosen worker in this step: it starts the
\* delivery to the desktop cell or counts the task on the micro organelle
DeliveryToChosen ==
    \/ pc = "store" /\ pc' = "deliver"
    \/ MicroDelivery

\* C35: when the cycle hands its task to the chosen worker W and updates W's
\* load, the registry still stores, under W's key, the very record that
\* selection returned: no scan, registration or heartbeat has removed or
\* replaced it since.
C35_ChosenRecordStillRegistered ==
    [][DeliveryToChosen =>
          /\ best_live
          /\ best_organelle.key \in Keys(organelle_capacities)
          /\ DictGet(organelle_capacities, best_organelle.key)
                = best_organelle.capacity]_vars

----------------------------------------------------------------------------
(* The loop after an error *)

\* an exception ended the cycle that held task id: the task is in no queue and
\* in no cycle, and it has no Assignment or its record was never written ASSIGNED
Dropped(id) ==
    /\ id \in DOMAIN redis_tasks
    /\ id \notin QueuedIds
    /\ task_data = None \/ task_data.task_id # id
    /\ id \notin DOMAIN active_tasks \/ redis_tasks[id].status = "pending"

\* C36: under a fair dispatch loop, once an exception has ended a dispatch
\* cycle, every task that is in the queue is still taken from it by a later
\* cycle: the exception has not stopped the loop.
C36_LoopSurvivesError ==
    \A id \in 1..MaxTasks :
        ((\E e \in 1..MaxTasks : Dropped(e)) /\ id \in QueuedIds)
            ~> (id \notin QueuedIds)

\* the cycle of task 1, which names no task type, ended in ValueError; a later
\* cycle took task 2 and assigned it
C36_Witness ==
    /\ Dropped(1)
    /\ 1 \notin DOMAIN active_tasks
    /\ ~IsTaskType(redis_tasks[1].request)
    /\ 2 \in DOMAIN active_tasks
    /\ pc = "store"

----------------------------------------------------------------------------
(* Tasks that require the desktop *)

\* C37: a dispatch cycle that chooses a worker for a task submitted with
\* requires_desktop = true chooses a desktop cell.
C37_RequiresDesktopGoesToDesktop ==
    [][WorkerChosen =>
          (Head(task_queue).request.requires_desktop
              => best_organelle'.capacity.type = "desktop-cell")]_vars

----------------------------------------------------------------------------
(* Selection and the priority *)

\* the priority names of TaskPriority, and one that is none
AnyPriority == {"low", "normal", "high", "critical", "urgent"}

\* what the cycle that begins in this step got from find_best_organelle
OutcomeAfter ==
    CASE pc' = "store" -> "found"
      [] pc' = "requeue" -> "none"
      [] OTHER -> "raise"

\* C38: when a dispatch cycle begins, selection on the same registry for the
\* same task under any other priority, recognised or not, ends the same way
\* and, where it finds a worker, finds the worker that the cycle chose.
C38_ChoiceIgnoresPriority ==
    [][CycleBegins =>
          \A priority \in AnyPriority :
              LET request == [Head(task_queue).request EXCEPT !.priority = priority]
                  other == find_best_organelle(organelle_capacities, request)
              IN  /\ other.outcome = OutcomeAfter
                  /\ other.outcome = "found"
                        => /\ other.key = best_organelle'.key
                           /\ other.capacity = best_organelle'.capacity]_vars

\* for a task of unrecognised priority the cycle chose the second of two
\* eligible workers, a desktop cell, over a micro organelle of lower score
C38_Witness ==
    /\ pc = "store"
    /\ task_data.request.priority = "urgent"
    /\ Len(organelle_capacities) = 2
    /\ Eligible(organelle_capacities, task_data.request.task_type) = {"A", "B"}
    /\ best_organelle.key = organelle_capacities[2].key
    /\ best_organelle.capacity.type = "desktop-cell"
    /\ organelle_capacities[1].value.type = "micro"

----------------------------------------------------------------------------
(* One copy of each task *)

\* C39: no task id is in the queue twice, and the task a dispatch cycle holds
\* is not in the queue; so a cycle has put the task it popped back at most once.
C39_QueueHoldsEachTaskOnce ==
    /\ \A i, j \in 1..Len(task_queue) :
          task_queue[i].task_id = task_queue[j].task_id => i = j
    /\ task_data # None => task_data.task_id \notin QueuedIds

\* task 1 is back in the queue after its delivery failed, and the next cycle
\* holds task 2
C39_Witness ==
    /\ pc = "store"
    /\ task_data.task_id = 2
    /\ Len(task_queue) = 1
    /\ task_queue[1].task_id = 1
    /\ task_queue[1].status = "assigned"

----------------------------------------------------------------------------
(* The divisor of the load factor *)

\* C40: when a dispatch cycle begins with a task of a known kind, every
\* registered worker that passes the capacity check and the capability check,
\* and so has its fitness computed, has max_concurrent_tasks different from 0.
C40_DivisorNotZero ==
    [][(CycleBegins /\ IsTaskType(Head(task_queue).request)) =>
          \A i \in 1..Len(organelle_capacities) :
              LET capacity == organelle_capacities[i].value
              IN  (/\ capacity.current_tasks < capacity.max_concurrent_tasks
                   /\ organelle_can_handle_task(capacity, Head(task_queue).request))
                      => capacity.max_concurrent_tasks # 0]_vars

====
